---- MODULE Spec2Model ----
(***************************************************************************)
(* Model of the fuzzer's expression generator (tools/fuzzer/expr_gen.cc):  *)
(* the selection primitives of DefaultGeneratorRng, the recursive          *)
(* generation step gen_with_weights and the parenthesisation rules of      *)
(* gen_binary_expr / gen_unary_expr.                                       *)
(*                                                                         *)
(* Weights are exact: a weight is kept as a natural number of units of     *)
(* 1/Scale(cfg), where Scale(cfg) is a power of the configuration's        *)
(* dampening denominators large enough for every product the bounded model *)
(* can form, so no rounding takes place.  A draw of                        *)
(* uniform_real_distribution(0, sum) is any unit in [0, sum).              *)
(***************************************************************************)
EXTENDS Integers, Sequences, FiniteSets, TLC

\* ------------------------------------------------------------------ bounds
\* Largest number of operator nodes (BinaryExpr, UnaryExpr) of one tree.
MaxOps == 3
\* Largest weight of one slot handed to a selection primitive called directly.
MaxW == 3

\* --------------------------------------------------------------- constants
\* ExprKind, in the order of the dispatch of gen_with_weights.
IntegerConstantKind == 0
DoubleConstantKind == 1
VariableExprKind == 2
BinaryExprKind == 3
UnaryExprKind == 4
NUM_EXPR_KINDS == 5
\* TypeKind: ScalarType is the first enumerator.
ScalarType == 0
NUM_TYPE_KINDS == 3
\* BinOp and UnOp, one mask bit each.
Plus == 0
Minus == 1
Mult == 2
Div == 3
NUM_BIN_OPS == 4
UnPlus == 0
UnNeg == 1
NUM_UN_OPS == 2
\* Precedences: a smaller number binds tighter.
LEAF_PRECEDENCE == 0
UNARY_PRECEDENCE == 3
MULT_PRECEDENCE == 5
ADD_PRECEDENCE == 6
\* The one variable symbol of gen_variable_expr.
VAR == "x"
RECURSIVE Pow(_, _)
Pow(b, n) == IF n = 0 THEN 1 ELSE b * Pow(b, n - 1)

\* Rationals (dampening factors, probabilities) are num/den.
Ratio(num, den) == [num |-> num, den |-> den]

ExprKinds == 0 .. (NUM_EXPR_KINDS - 1)
LeafKinds == {IntegerConstantKind, DoubleConstantKind, VariableExprKind}
RecursiveKinds == {BinaryExprKind, UnaryExprKind}

\* ------------------------------------------------------- expression trees
IntegerConstant(value) == [kind |-> "IntegerConstant", value |-> value]
DoubleConstant(value) == [kind |-> "DoubleConstant", value |-> value]
VariableExpr(name) == [kind |-> "VariableExpr", name |-> name]
UnaryExpr(op, expr) == [kind |-> "UnaryExpr", op |-> op, expr |-> expr]
BinaryExpr(lhs, op, rhs) ==
    [kind |-> "BinaryExpr", lhs |-> lhs, op |-> op, rhs |-> rhs]
ParenthesizedExpr(expr) == [kind |-> "ParenthesizedExpr", expr |-> expr]
\* An empty slot of a frame (an Expr not yet assigned).
NoExpr == [kind |-> "None"]

bin_op_precedence(op) ==
    IF op \in {Mult, Div} THEN MULT_PRECEDENCE ELSE ADD_PRECEDENCE

expr_precedence(e) ==
    CASE e.kind = "BinaryExpr" -> bin_op_precedence(e.op)
      [] e.kind = "UnaryExpr" -> UNARY_PRECEDENCE
      [] OTHER -> LEAF_PRECEDENCE

\* ---------------------------------------------------- selection primitives
\* An outcome of a call on the randomness source: a value, or the fatal
\* precondition failure (assert / lldb_eval_unreachable).
Returned(v) == [fatal |-> FALSE, out |-> v]
Fatal == [fatal |-> TRUE, out |-> 0]

\* std::bitset: bit i of mask, and the number of set bits among the N bits.
Bit(mask, i) == (mask \div Pow(2, i)) % 2 = 1
Count(mask, N) == Cardinality({i \in 0 .. (N - 1) : Bit(mask, i)})

\* The scan of pick_nth_set_bit from position i on, for the drawn choice.
RECURSIVE pick_nth_set_bit_scan_off(_, _, _, _, _)
pick_nth_set_bit_scan_off(mask, N, choice, i, running_ones) ==
    IF i >= N THEN Fatal
    ELSE IF running_ones = choice THEN Returned(i)
    ELSE pick_nth_set_bit_scan_off(mask, N, choice, i + 1,
             IF Bit(mask, i) THEN running_ones + 1 ELSE running_ones)

RECURSIVE pick_nth_set_bit_scan(_, _, _, _, _)
pick_nth_set_bit_scan(mask, N, choice, i, running_ones) ==
    IF i >= N THEN Fatal
    ELSE LET ones == IF Bit(mask, i) THEN running_ones + 1 ELSE running_ones
         IN IF ones = choice THEN Returned(i)
            ELSE pick_nth_set_bit_scan(mask, N, choice, i + 1, ones)

\* The draws distr(1, mask.count()) can produce.  With an empty mask the
\* range is (1, 0): the assert stops a build that keeps asserts; a build
\* with NDEBUG draws from an invalid distribution, any value.
pick_nth_set_bit_choices(mask, N) ==
    IF Count(mask, N) = 0 THEN 0 .. N ELSE 1 .. Count(mask, N)

\* pick_nth_set_bit(mask, rng) on an N-bit mask, for the drawn choice.
pick_nth_set_bit(mask, N, nd, choice) ==
    IF Count(mask, N) = 0 /\ ~nd THEN Fatal
    ELSE pick_nth_set_bit_scan(mask, N, choice, 0, 0)

gen_bin_op(mask, nd, choice) == pick_nth_set_bit(mask, NUM_BIN_OPS, nd, choice)
gen_un_op(mask, nd, choice) == pick_nth_set_bit(mask, NUM_UN_OPS, nd, choice)

\* std::accumulate over a weight vector w (a function on 0 .. n-1).
RECURSIVE accumulate(_, _)
accumulate(w, n) == IF n = 0 THEN 0 ELSE accumulate(w, n - 1) + w[n - 1]
Size(w) == Cardinality(DOMAIN w)

\* The values uniform_real_distribution(a, b) returns: those of [a, b),
\* and a itself when the range is empty.
uniform_real_distribution(a, b) == IF b <= a THEN {a} ELSE a .. (b - 1)

RECURSIVE gen_expr_kind_le(_, _, _, _)
gen_expr_kind_le(w, val, i, running_sum) ==
    IF i >= Size(w) THEN IntegerConstantKind
    ELSE IF val <= running_sum + w[i] THEN i
    ELSE gen_expr_kind_le(w, val, i + 1, running_sum + w[i])

\* The loop of gen_expr_kind from index i on; IntegerConstant when it ends
\* without a hit.
RECURSIVE gen_expr_kind_loop(_, _, _, _)
gen_expr_kind_loop(w, val, i, running_sum) ==
    IF i >= Size(w) THEN IntegerConstantKind
    ELSE IF val < running_sum + w[i] THEN i
    ELSE gen_expr_kind_loop(w, val, i + 1, running_sum + w[i])

gen_expr_kind(w, val) == gen_expr_kind_loop(w, val, 0, 0)

RECURSIVE gen_type_kind_loop(_, _, _, _)
gen_type_kind_loop(w, val, i, running_sum) ==
    IF i >= Size(w) THEN ScalarType
    ELSE IF val < running_sum + w[i] THEN i
    ELSE gen_type_kind_loop(w, val, i + 1, running_sum + w[i])

gen_type_kind(w, val) == gen_type_kind_loop(w, val, 0, 0)

gen_u64(min, max) == min .. max
\* Doubles are kept on the integer grid of [min, max].
gen_double(min, max) == min .. max
\* bernoulli_distribution(p): true needs p > 0, false needs p < 1.
gen_parenthesize(probability) ==
    {b \in BOOLEAN : IF b THEN probability.num > 0
                              ELSE probability.num < probability.den}

\* ----------------------------------------------------------- configuration
\* One row of cfg_.expr_kind_weights.
KindWeight(initial_weight, dampening_factor) ==
    [initial_weight |-> initial_weight, dampening_factor |-> dampening_factor]
Half == Ratio(1, 2)
One == Ratio(1, 1)
Never == Ratio(0, 1)
NoWeight == KindWeight(0, One)
\* A recursive kind that is dampened but has no weight.
Off == KindWeight(0, Half)

GenConfig(imin, imax, dmin, dmax, bmask, umask, pp, ws) ==
    [int_const_min |-> imin, int_const_max |-> imax,
     double_constant_min |-> dmin, double_constant_max |-> dmax,
     bin_op_mask |-> bmask, un_op_mask |-> umask,
     parenthesize_prob |-> pp,
     expr_kind_weights |-> [k \in ExprKinds |-> ws[k + 1]]]

\* The configurations explored.  Masks: bit i enables operator i.
\* x and binary operators +, -, *.
CfgBinary ==
    GenConfig(0, 0, 0, 0, 7, 2, Never,
        <<NoWeight, NoWeight, KindWeight(1, One),
          KindWeight(1, Half), Off>>)
\* x, binary + and *, unary -.
CfgMixed ==
    GenConfig(0, 0, 0, 0, 5, 2, Never,
        <<NoWeight, NoWeight, KindWeight(1, One),
          KindWeight(1, Half), KindWeight(1, Half)>>)
\* x, binary +, unary -, every node parenthesized or not.
CfgParens ==
    GenConfig(0, 0, 0, 0, 1, 2, Half,
        <<NoWeight, NoWeight, KindWeight(1, Half),
          KindWeight(1, Half), KindWeight(1, Half)>>)
\* The three leaf kinds.
CfgLeaves ==
    GenConfig(0, 1, 0, 1, 15, 3, Half,
        <<KindWeight(1, One), KindWeight(1, One), KindWeight(1, One),
          Off, Off>>)
\* IntegerConstant alone, in the range [0, 0].
CfgZero(pp) ==
    GenConfig(0, 0, 0, 0, 15, 3, pp,
        <<KindWeight(1, One), NoWeight, NoWeight,
          Off, Off>>)
\* No leaf kind has a weight.
CfgOnlyBinary ==
    GenConfig(0, 0, 0, 0, 1, 1, Never,
        <<NoWeight, NoWeight, NoWeight,
          KindWeight(1, Ratio(3, 4)), Off>>)
CfgOnlyUnary ==
    GenConfig(0, 0, 0, 0, 1, 1, Never,
        <<NoWeight, NoWeight, NoWeight,
          Off, KindWeight(2, Half)>>)
\* No kind has a weight.
CfgAllZero ==
    GenConfig(0, 0, 0, 0, 1, 1, Never,
        <<NoWeight, NoWeight, NoWeight,
          Off, Off>>)
\* An operator mask is empty.
CfgNoUnOp ==
    GenConfig(0, 0, 0, 0, 1, 0, Never,
        <<NoWeight, NoWeight, KindWeight(1, One),
          Off, KindWeight(1, Half)>>)
CfgNoBinOp ==
    GenConfig(0, 0, 0, 0, 0, 1, Never,
        <<NoWeight, NoWeight, KindWeight(1, One),
          KindWeight(1, Half), Off>>)
\* A recursive kind is not dampened.
CfgUndampened ==
    GenConfig(0, 0, 0, 0, 4, 1, Never,
        <<NoWeight, NoWeight, KindWeight(1, One),
          KindWeight(2, One), Off>>)

Configs ==
    {CfgBinary, CfgMixed, CfgParens, CfgLeaves, CfgZero(Never),
     CfgZero(Half), CfgZero(One), CfgOnlyBinary, CfgOnlyUnary, CfgAllZero,
     CfgNoUnOp, CfgNoBinOp, CfgUndampened}

\* A build keeps its asserts or drops them (NDEBUG); the two differ only
\* where a mask is empty.
Builds(c) ==
    IF Count(c.bin_op_mask, NUM_BIN_OPS) = 0
         \/ Count(c.un_op_mask, NUM_UN_OPS) = 0
    THEN BOOLEAN ELSE {FALSE}

\* The common denominator of the dampening factors of c, and the unit of
\* its weights: 1/Scale(c).
Den(c) ==
    LET dens == {c.expr_kind_weights[k].dampening_factor.den : k \in ExprKinds}
    IN CHOOSE d \in dens : \A e \in dens : d % e = 0
Scale(c) == Pow(Den(c), MaxOps + 1)

\* -------------------------------------------------------------------- state
VARIABLES
    cfg,      \* cfg_: the configuration of the generator
    ndebug,   \* whether the build drops its asserts
    status,   \* "idle", "running", "done" (generate returned), "fatal"
    stack,    \* the pending gen_with_weights calls, the root first
    result,   \* the tree generate() returned
    ops,      \* the operator nodes chosen so far
    draws,    \* the calls made on the randomness source, in order
    prim      \* the last direct call of a selection primitive

vars == <<cfg, ndebug, status, stack, result, ops, draws, prim>>
genvars == <<cfg, ndebug, status, stack, result, ops, draws>>

\* A direct call: the primitive, its argument (a weight vector, or a mask
\* of `bits` bits), the draw made inside it and its outcome.
PrimCall(fn, weights, mask, bits, draw, o) ==
    [fn |-> fn, weights |-> weights, mask |-> mask, bits |-> bits,
     draw |-> draw, fatal |-> o.fatal, out |-> o.out]
NoPrim == PrimCall("none", <<>>, 0, 0, 0, Returned(0))

\* The statements of the kind-specific constructors, in order.  "lhs",
\* "rhs" and "expr" are the recursive gen_with_weights calls.
gen_integer_constant_steps == <<"gen_u64">>
gen_double_constant_steps == <<"gen_double">>
gen_variable_expr_steps == <<"var">>
gen_binary_expr_steps == <<"gen_bin_op", "lhs", "rhs">>
gen_unary_expr_steps_op_first == <<"gen_un_op", "expr">>
gen_unary_expr_steps == <<"expr", "gen_un_op">>

\* The switch of gen_with_weights.
Steps(kind) ==
    CASE kind = IntegerConstantKind -> gen_integer_constant_steps
      [] kind = DoubleConstantKind -> gen_double_constant_steps
      [] kind = VariableExprKind -> gen_variable_expr_steps
      [] kind = BinaryExprKind -> gen_binary_expr_steps
      [] kind = UnaryExprKind -> gen_unary_expr_steps

CallSteps == {"lhs", "rhs", "expr"}

\* Weights new_weights = weights; new_weights[kind] *= dampening_factor.
dampen_all(weights, kind, c) ==
    [k \in DOMAIN weights |->
        (weights[k] * c.expr_kind_weights[kind].dampening_factor.num)
            \div c.expr_kind_weights[kind].dampening_factor.den]
dampen(weights, kind, c) ==
    [weights EXCEPT ![kind] =
        (@ * c.expr_kind_weights[kind].dampening_factor.num)
            \div c.expr_kind_weights[kind].dampening_factor.den]

\* The parenthesisation of gen_binary_expr and the node it returns.
gen_binary_expr_rhs_gt(op, lhs, rhs) ==
    BinaryExpr(
        IF expr_precedence(lhs) > bin_op_precedence(op)
            THEN ParenthesizedExpr(lhs) ELSE lhs,
        op,
        IF expr_precedence(rhs) > bin_op_precedence(op)
            THEN ParenthesizedExpr(rhs) ELSE rhs)
gen_binary_expr_no_lhs(op, lhs, rhs) ==
    BinaryExpr(
        lhs,
        op,
        IF expr_precedence(rhs) >= bin_op_precedence(op)
            THEN ParenthesizedExpr(rhs) ELSE rhs)
gen_binary_expr(op, lhs, rhs) ==
    BinaryExpr(
        IF expr_precedence(lhs) > bin_op_precedence(op)
            THEN ParenthesizedExpr(lhs) ELSE lhs,
        op,
        IF expr_precedence(rhs) >= bin_op_precedence(op)
            THEN ParenthesizedExpr(rhs) ELSE rhs)

\* The parenthesisation of gen_unary_expr and the node it returns.
gen_unary_expr_bare(op, expr) == UnaryExpr(op, expr)
gen_unary_expr(op, expr) ==
    UnaryExpr(op,
        IF expr_precedence(expr) > UNARY_PRECEDENCE
            THEN ParenthesizedExpr(expr) ELSE expr)

gen_integer_constant(value) == IntegerConstant(value)
gen_double_constant(value) == DoubleConstant(value)
gen_variable_expr == VariableExpr(VAR)

maybe_parenthesized_twice(expr, b) ==
    IF b THEN ParenthesizedExpr(ParenthesizedExpr(expr)) ELSE expr
maybe_parenthesized(expr, b) == IF b THEN ParenthesizedExpr(expr) ELSE expr

\* A pending gen_with_weights call for the node at `path` (child numbers
\* from the root: 1 is lhs or the operand, 2 is rhs).
Frame(path, weights) ==
    [path |-> path, weights |-> weights, new_weights |-> weights,
     kind |-> -1, pc |-> "gen_expr_kind", step |-> 0,
     op |-> 0, value |-> 0, lhs |-> NoExpr, rhs |-> NoExpr, expr |-> NoExpr]

Top == stack[Len(stack)]
SetTop(st, f) == [st EXCEPT ![Len(st)] = f]

\* The node the constructor of f's kind returns once its statements ran.
Construct(f) ==
    CASE f.kind = IntegerConstantKind -> gen_integer_constant(f.value)
      [] f.kind = DoubleConstantKind -> gen_double_constant(f.value)
      [] f.kind = VariableExprKind -> gen_variable_expr
      [] f.kind = BinaryExprKind -> gen_binary_expr(f.op, f.lhs, f.rhs)
      [] f.kind = UnaryExprKind -> gen_unary_expr(f.op, f.lhs)

\* Control moves past statement f.step of the top frame f: to the next
\* statement (a recursive call pushes the callee's frame, which receives
\* the caller's new_weights), or to maybe_parenthesized after the last.
Advance(st, f) ==
    LET j == f.step + 1
        ss == Steps(f.kind)
    IN IF j > Len(ss)
       THEN SetTop(st, [f EXCEPT !.step = j, !.expr = Construct(f),
                                 !.pc = "maybe_parenthesized"])
       ELSE IF ss[j] \in CallSteps
       THEN Append(SetTop(st, [f EXCEPT !.step = j, !.pc = ss[j]]),
                   Frame(Append(f.path, IF ss[j] = "rhs" THEN 2 ELSE 1),
                         f.new_weights))
       ELSE SetTop(st, [f EXCEPT !.step = j, !.pc = ss[j]])

\* One call on the randomness source: the primitive, the node whose
\* generation made it, and the value it returned (a boolean as 0 or 1).
Draw(site, node, out) == [site |-> site, node |-> node, out |-> out]

GenInit ==
    /\ cfg \in Configs
    /\ ndebug \in Builds(cfg)
    /\ status = "idle"
    /\ stack = <<>>
    /\ result = NoExpr
    /\ ops = 0
    /\ draws = <<>>
    /\ prim = NoPrim

\* generate(): the weights start at the configured initial weights.
Generate ==
    /\ status = "idle"
    /\ status' = "running"
    /\ stack' = <<Frame(<<>>,
           [k \in ExprKinds |->
               cfg.expr_kind_weights[k].initial_weight * Scale(cfg)])>>
    /\ UNCHANGED <<cfg, ndebug, result, ops, draws, prim>>

\* gen_with_weights up to its switch: the kind is drawn and its slot of the
\* copy dampened.
GenExprKind ==
    /\ status = "running"
    /\ Top.pc = "gen_expr_kind"
    /\ \E val \in uniform_real_distribution(0,
                      accumulate(Top.weights, NUM_EXPR_KINDS)) :
         LET kind == gen_expr_kind(Top.new_weights, val)
             f == [Top EXCEPT !.kind = kind,
                              !.new_weights =
                                  dampen(Top.new_weights, kind, cfg)]
         IN /\ kind \in RecursiveKinds => ops < MaxOps
            /\ ops' = IF kind \in RecursiveKinds THEN ops + 1 ELSE ops
            /\ stack' = Advance(stack, f)
            /\ draws' = Append(draws, Draw("gen_expr_kind", Top.path, kind))
    /\ UNCHANGED <<cfg, ndebug, status, result, prim>>

GenU64 ==
    /\ status = "running"
    /\ Top.pc = "gen_u64"
    /\ \E value \in gen_u64(cfg.int_const_min, cfg.int_const_max) :
         /\ stack' = Advance(stack, [Top EXCEPT !.value = value])
         /\ draws' = Append(draws, Draw("gen_u64", Top.path, value))
    /\ UNCHANGED <<cfg, ndebug, status, result, ops, prim>>

GenDouble ==
    /\ status = "running"
    /\ Top.pc = "gen_double"
    /\ \E value \in gen_double(cfg.double_constant_min,
                               cfg.double_constant_max) :
         /\ stack' = Advance(stack, [Top EXCEPT !.value = value])
         /\ draws' = Append(draws, Draw("gen_double", Top.path, value))
    /\ UNCHANGED <<cfg, ndebug, status, result, ops, prim>>

GenVariableExpr ==
    /\ status = "running"
    /\ Top.pc = "var"
    /\ stack' = Advance(stack, Top)
    /\ UNCHANGED <<cfg, ndebug, status, result, ops, draws, prim>>

\* An operator draw: its outcome is stored, or the run ends in the fatal
\* failure.
OpDrawn(site, o) ==
    IF o.fatal
    THEN /\ status' = "fatal"
         /\ stack' = stack
         /\ draws' = draws
    ELSE /\ status' = status
         /\ stack' = Advance(stack, [Top EXCEPT !.op = o.out])
         /\ draws' = Append(draws, Draw(site, Top.path, o.out))

GenBinOp ==
    /\ status = "running"
    /\ Top.pc = "gen_bin_op"
    /\ \E choice \in pick_nth_set_bit_choices(cfg.bin_op_mask, NUM_BIN_OPS) :
         OpDrawn("gen_bin_op", gen_bin_op(cfg.bin_op_mask, ndebug, choice))
    /\ UNCHANGED <<cfg, ndebug, result, ops, prim>>

GenUnOp ==
    /\ status = "running"
    /\ Top.pc = "gen_un_op"
    /\ \E choice \in pick_nth_set_bit_choices(cfg.un_op_mask, NUM_UN_OPS) :
         OpDrawn("gen_un_op", gen_un_op(cfg.un_op_mask, ndebug, choice))
    /\ UNCHANGED <<cfg, ndebug, result, ops, prim>>

\* maybe_parenthesized and the return of gen_with_weights: the caller
\* stores the value and goes on, or generate() returns it.
GenParenthesize ==
    /\ status = "running"
    /\ Top.pc = "maybe_parenthesized"
    /\ \E b \in gen_parenthesize(cfg.parenthesize_prob) :
         LET value == maybe_parenthesized(Top.expr, b)
             rest == SubSeq(stack, 1, Len(stack) - 1)
         IN /\ draws' = Append(draws, Draw("gen_parenthesize", Top.path,
                                           IF b THEN 1 ELSE 0))
            /\ IF rest = <<>>
               THEN /\ result' = value
                    /\ status' = "done"
                    /\ stack' = rest
               ELSE LET caller == rest[Len(rest)]
                        got == IF caller.pc = "rhs"
                               THEN [caller EXCEPT !.rhs = value]
                               ELSE [caller EXCEPT !.lhs = value]
                    IN /\ result' = result
                       /\ status' = status
                       /\ stack' = Advance(rest, got)
    /\ UNCHANGED <<cfg, ndebug, ops, prim>>

GenNext ==
    \/ Generate
    \/ GenExprKind
    \/ GenU64
    \/ GenDouble
    \/ GenVariableExpr
    \/ GenBinOp
    \/ GenUnOp
    \/ GenParenthesize

Spec == GenInit /\ [][GenNext]_vars

\* ------------------------------------------- the primitives, called directly
\* One call per behaviour: the outcome depends on the argument and on the
\* draw alone.
PrimInit ==
    /\ cfg = CfgAllZero
    /\ ndebug \in BOOLEAN
    /\ status = "idle"
    /\ stack = <<>>
    /\ result = NoExpr
    /\ ops = 0
    /\ draws = <<>>
    /\ prim = NoPrim

CallGenExprKind ==
    /\ prim.fn = "none"
    /\ \E w \in [ExprKinds -> 0 .. MaxW] :
         \E val \in uniform_real_distribution(0,
                        accumulate(w, NUM_EXPR_KINDS)) :
           prim' = PrimCall("gen_expr_kind", w, 0, 0, val,
                            Returned(gen_expr_kind(w, val)))
    /\ UNCHANGED genvars

CallGenTypeKind ==
    /\ prim.fn = "none"
    /\ \E w \in [0 .. (NUM_TYPE_KINDS - 1) -> 0 .. MaxW] :
         \E val \in uniform_real_distribution(0,
                        accumulate(w, NUM_TYPE_KINDS)) :
           prim' = PrimCall("gen_type_kind", w, 0, 0, val,
                            Returned(gen_type_kind(w, val)))
    /\ UNCHANGED genvars

CallGenBinOp ==
    /\ prim.fn = "none"
    /\ \E mask \in 0 .. (Pow(2, NUM_BIN_OPS) - 1) :
         \E choice \in pick_nth_set_bit_choices(mask, NUM_BIN_OPS) :
           prim' = PrimCall("gen_bin_op", <<>>, mask, NUM_BIN_OPS, choice,
                            gen_bin_op(mask, ndebug, choice))
    /\ UNCHANGED genvars

CallGenUnOp ==
    /\ prim.fn = "none"
    /\ \E mask \in 0 .. (Pow(2, NUM_UN_OPS) - 1) :
         \E choice \in pick_nth_set_bit_choices(mask, NUM_UN_OPS) :
           prim' = PrimCall("gen_un_op", <<>>, mask, NUM_UN_OPS, choice,
                            gen_un_op(mask, ndebug, choice))
    /\ UNCHANGED genvars

PrimNext ==
    \/ CallGenExprKind
    \/ CallGenTypeKind
    \/ CallGenBinOp
    \/ CallGenUnOp

SpecPrim == PrimInit /\ [][PrimNext]_vars

\* ------------------------------------------------- the selection primitives
WeightedCall == prim.fn \in {"gen_expr_kind", "gen_type_kind"}
MaskCall == prim.fn \in {"gen_bin_op", "gen_un_op"}
PrimSum == accumulate(prim.weights, Size(prim.weights))
\* The set positions of the mask of the call.
SetBits == {i \in 0 .. (prim.bits - 1) : Bit(prim.mask, i)}
\* What the primitive of the call returns for another draw.
PrimKindFor(val) ==
    IF prim.fn = "gen_expr_kind" THEN gen_expr_kind(prim.weights, val)
    ELSE gen_type_kind(prim.weights, val)
PrimBitFor(choice) == pick_nth_set_bit(prim.mask, prim.bits, ndebug, choice)

\* C4: a selection primitive called with an invalid domain (a weight vector
\* whose entries are all zero, a mask with no set bit) ends in the fatal
\* precondition failure and returns no value.
C4_InvalidDomainIsFatal ==
    ((WeightedCall /\ PrimSum = 0) \/ (MaskCall /\ SetBits = {})) => prim.fatal

\* C7: for a non-empty mask and a draw d in 1 .. popcount, pick_nth_set_bit
\* returns a set position i with exactly d set bits at positions <= i; the
\* draws map one-to-one onto the set positions, and for mask 0b1011 only
\* 0, 1 and 3 are returned.
C7_PickNthSetBit ==
    (MaskCall /\ SetBits # {}) =>
        /\ ~prim.fatal
        /\ prim.draw \in 1 .. Cardinality(SetBits)
        /\ prim.out \in SetBits
        /\ Cardinality({j \in SetBits : j <= prim.out}) = prim.draw
        /\ \A d \in 1 .. Cardinality(SetBits) :
              d # prim.draw => PrimBitFor(d).out # prim.out
        /\ {PrimBitFor(d).out : d \in 1 .. Cardinality(SetBits)} = SetBits
        /\ prim.mask = 11 => prim.out \in {0, 1, 3}

C7_Witness ==
    /\ prim.fn = "gen_bin_op"
    /\ prim.mask = 11
    /\ prim.draw = 3
    /\ prim.out = 3

\* The cumulative weight w[0] + ... + w[i] of the call's vector.
Cumulative(i) == accumulate(prim.weights, i + 1)

\* C8: for non-negative weights of positive sum and a draw v in [0, sum),
\* the weighted choice returns the first index whose cumulative weight
\* strictly exceeds v; a zero-weight kind is never returned, index i is
\* returned for w[i] of the draws, and weights [1, 3] return index 1 exactly
\* for the draws in [1, 4).
C8_WeightedChoice ==
    (WeightedCall /\ PrimSum > 0) =>
        /\ ~prim.fatal
        /\ prim.out \in DOMAIN prim.weights
        /\ Cumulative(prim.out) > prim.draw
        /\ \A j \in DOMAIN prim.weights :
              j < prim.out => Cumulative(j) <= prim.draw
        /\ prim.weights[prim.out] > 0
        /\ Cardinality({v \in 0 .. (PrimSum - 1) : PrimKindFor(v) = prim.out})
              = prim.weights[prim.out]
        /\ (prim.weights[0] = 1 /\ prim.weights[1] = 3 /\ PrimSum = 4) =>
              (prim.out = 1 <=> prim.draw \in 1 .. 3)

C8_Witness ==
    /\ prim.fn = "gen_type_kind"
    /\ prim.weights[0] = 1
    /\ prim.weights[1] = 3
    /\ prim.weights[2] = 0
    /\ prim.draw = 1
    /\ prim.out = 1

\* ------------------------------------------------------ the generated trees
\* The nodes of a tree, the root first.
RECURSIVE Nodes(_)
Nodes(e) ==
    <<e>> \o
    (CASE e.kind = "BinaryExpr" -> Nodes(e.lhs) \o Nodes(e.rhs)
       [] e.kind \in {"UnaryExpr", "ParenthesizedExpr"} -> Nodes(e.expr)
       [] OTHER -> <<>>)

IsParenOf(e, inner) == e.kind = "ParenthesizedExpr" /\ e.expr = inner
\* The frames whose constructor has returned its node.
Built(f) == f.pc = "maybe_parenthesized"
GenerateReturned == status = "done"

\* C1: in every BinaryExpr of a returned tree precedence(lhs) <=
\* precedence(op) and precedence(rhs) < precedence(op); gen_binary_expr
\* wraps lhs iff its precedence is strictly greater than op's and rhs iff
\* its precedence is greater than or equal to op's.
C1_BinaryPrecedence ==
    /\ GenerateReturned =>
         \A i \in DOMAIN Nodes(result) :
            LET n == Nodes(result)[i]
            IN n.kind = "BinaryExpr" =>
                 /\ expr_precedence(n.lhs) <= bin_op_precedence(n.op)
                 /\ expr_precedence(n.rhs) < bin_op_precedence(n.op)
    /\ \A i \in DOMAIN stack :
          LET f == stack[i]
          IN (f.kind = BinaryExprKind /\ Built(f)) =>
               /\ f.expr.kind = "BinaryExpr"
               /\ f.expr.op = f.op
               /\ IF expr_precedence(f.lhs) > bin_op_precedence(f.op)
                  THEN IsParenOf(f.expr.lhs, f.lhs) ELSE f.expr.lhs = f.lhs
               /\ IF expr_precedence(f.rhs) >= bin_op_precedence(f.op)
                  THEN IsParenOf(f.expr.rhs, f.rhs) ELSE f.expr.rhs = f.rhs

\* (x + x) * (x * x): both children wrapped by the rule alone.
C1_Witness ==
    /\ GenerateReturned
    /\ cfg = CfgBinary
    /\ result.kind = "BinaryExpr"
    /\ result.op = Mult
    /\ result.lhs.kind = "ParenthesizedExpr"
    /\ result.lhs.expr.kind = "BinaryExpr"
    /\ result.lhs.expr.op = Plus
    /\ result.rhs.kind = "ParenthesizedExpr"
    /\ result.rhs.expr.kind = "BinaryExpr"
    /\ result.rhs.expr.op = Mult

\* C10: in every UnaryExpr of a returned tree precedence(operand) <=
\* UnaryExpr::PRECEDENCE; gen_unary_expr wraps the operand iff its
\* precedence is strictly greater: a bare BinaryExpr is wrapped, a leaf, a
\* ParenthesizedExpr or a UnaryExpr is not.
C10_UnaryPrecedence ==
    /\ GenerateReturned =>
         \A i \in DOMAIN Nodes(result) :
            LET n == Nodes(result)[i]
            IN n.kind = "UnaryExpr" =>
                 expr_precedence(n.expr) <= UNARY_PRECEDENCE
    /\ \A i \in DOMAIN stack :
          LET f == stack[i]
          IN (f.kind = UnaryExprKind /\ Built(f)) =>
               /\ f.expr.kind = "UnaryExpr"
               /\ f.expr.op = f.op
               /\ IF f.lhs.kind = "BinaryExpr"
                  THEN IsParenOf(f.expr.expr, f.lhs) ELSE f.expr.expr = f.lhs

\* -(x + x), and -(-x) left bare, in one tree: -(-x + x) is not a tree of the
\* generator, --x and -(x + x) are.
C10_Witness ==
    /\ GenerateReturned
    /\ cfg = CfgMixed
    /\ result.kind = "UnaryExpr"
    /\ result.expr.kind = "UnaryExpr"
    /\ result.expr.expr.kind = "ParenthesizedExpr"
    /\ result.expr.expr.expr.kind = "BinaryExpr"

\* ------------------------------------------------------------ the round trip
Token(tok, v, name) == [tok |-> tok, v |-> v, name |-> name]

\* The printer: the tokens of a tree, a ParenthesizedExpr as ( inner ).
RECURSIVE PrintExpr(_)
PrintExpr(e) ==
    CASE e.kind = "IntegerConstant" -> <<Token("int", e.value, "")>>
      [] e.kind = "DoubleConstant" -> <<Token("double", e.value, "")>>
      [] e.kind = "VariableExpr" -> <<Token("var", 0, e.name)>>
      [] e.kind = "UnaryExpr" ->
            <<Token("unop", e.op, "")>> \o PrintExpr(e.expr)
      [] e.kind = "BinaryExpr" ->
            PrintExpr(e.lhs) \o <<Token("binop", e.op, "")>> \o PrintExpr(e.rhs)
      [] e.kind = "ParenthesizedExpr" ->
            <<Token("(", 0, "")>> \o PrintExpr(e.expr) \o <<Token(")", 0, "")>>
      [] OTHER -> <<Token("?", 0, "")>>

\* The parser: precedence climbing with the precedences of
\* bin_op_precedence, every binary operator left-associative, a unary
\* operator binding tighter than any binary one.  Parsed(e, pos) is the tree
\* read and the position of the next token.
Parsed(e, pos) == [e |-> e, pos |-> pos]
LoosestPrecedence == ADD_PRECEDENCE + MULT_PRECEDENCE

RECURSIVE ParsePrimary(_, _)
RECURSIVE ParseBinary(_, _, _)
RECURSIVE ParseRest(_, _, _)

ParsePrimary(toks, pos) ==
    IF pos > Len(toks) THEN Parsed(NoExpr, pos)
    ELSE LET t == toks[pos]
         IN CASE t.tok = "int" -> Parsed(IntegerConstant(t.v), pos + 1)
              [] t.tok = "double" -> Parsed(DoubleConstant(t.v), pos + 1)
              [] t.tok = "var" -> Parsed(VariableExpr(t.name), pos + 1)
              [] t.tok = "unop" ->
                    LET r == ParsePrimary(toks, pos + 1)
                    IN Parsed(UnaryExpr(t.v, r.e), r.pos)
              [] t.tok = "(" ->
                    LET r == ParseBinary(toks, pos + 1, LoosestPrecedence)
                    IN IF r.pos <= Len(toks) /\ toks[r.pos].tok = ")"
                       THEN Parsed(ParenthesizedExpr(r.e), r.pos + 1)
                       ELSE Parsed(NoExpr, r.pos)
              [] OTHER -> Parsed(NoExpr, pos)

\* lhs is read; operators no looser than `loosest` extend it to the right.
ParseRest(toks, lhs, loosest) ==
    IF /\ lhs.pos <= Len(toks)
       /\ toks[lhs.pos].tok = "binop"
       /\ bin_op_precedence(toks[lhs.pos].v) <= loosest
    THEN LET op == toks[lhs.pos].v
             rhs == ParseBinary(toks, lhs.pos + 1, bin_op_precedence(op) - 1)
         IN ParseRest(toks, Parsed(BinaryExpr(lhs.e, op, rhs.e), rhs.pos),
                      loosest)
    ELSE lhs

ParseBinary(toks, pos, loosest) ==
    ParseRest(toks, ParsePrimary(toks, pos), loosest)

Parse(toks) ==
    LET r == ParseBinary(toks, 1, LoosestPrecedence)
    IN IF r.pos = Len(toks) + 1 THEN r.e ELSE NoExpr

\* C2: printing a returned tree and parsing the tokens again gives the
\* same tree: the same operator at every node, the same children, the same
\* leaf values.
C2_RoundTrip == GenerateReturned => Parse(PrintExpr(result)) = result

\* -x * (x + x): a unary operand beside a child wrapped by the rule.
C2_Witness ==
    /\ GenerateReturned
    /\ cfg = CfgMixed
    /\ result.kind = "BinaryExpr"
    /\ result.op = Mult
    /\ result.lhs.kind = "UnaryExpr"
    /\ result.rhs.kind = "ParenthesizedExpr"
    /\ result.rhs.expr.kind = "BinaryExpr"
    /\ Parse(PrintExpr(result)) = result

\* ------------------------------------------------------------- end to end
\* The configuration of C5: the integer range is [0, 0] and IntegerConstant
\* is the one kind with a weight, 1.0.
OnlyIntegerZero(c) ==
    /\ c.int_const_min = 0
    /\ c.int_const_max = 0
    /\ \A k \in ExprKinds :
          c.expr_kind_weights[k].initial_weight
              = IF k = IntegerConstantKind THEN 1 ELSE 0

\* C5 as stated: under such a configuration, whatever parenthesize_prob
\* is, generate() returns the bare leaf IntegerConstant(0).
C5_AlwaysBareLeaf ==
    (GenerateReturned /\ OnlyIntegerZero(cfg)) => result = IntegerConstant(0)

\* C5, amended: under such a configuration generate() returns
\* IntegerConstant(0) when the root's gen_parenthesize draw is false and
\* ParenthesizedExpr(IntegerConstant(0)) when it is true; it is the bare
\* leaf on every run when parenthesize_prob is 0.
C5_LeafOrParenthesizedLeaf ==
    (GenerateReturned /\ OnlyIntegerZero(cfg)) =>
        /\ draws[Len(draws)].site = "gen_parenthesize"
        /\ result = IF draws[Len(draws)].out = 1
                    THEN ParenthesizedExpr(IntegerConstant(0))
                    ELSE IntegerConstant(0)
        /\ cfg.parenthesize_prob.num = 0 => result = IntegerConstant(0)

C5_Witness ==
    /\ GenerateReturned
    /\ OnlyIntegerZero(cfg)
    /\ cfg.parenthesize_prob = Half
    /\ result = ParenthesizedExpr(IntegerConstant(0))

\* ---------------------------------------------------------- weight handoff
InitialWeight(k) == cfg.expr_kind_weights[k].initial_weight * Scale(cfg)
Factor(k) == cfg.expr_kind_weights[k].dampening_factor
\* The proper ancestors of kind k of the node of frame i.
AncestorsOfKind(i, k) == Cardinality({j \in 1 .. (i - 1) : stack[j].kind = k})

\* C6: the vector handed to a child is the vector the call received with
\* the chosen kind's slot multiplied by that kind's dampening factor and
\* every other slot unchanged; the received vector is not modified; lhs and
\* rhs receive the same vector; the weight of kind k at a node is
\* initial_weight(k) * dampening_factor(k)^(proper ancestors of kind k).
C6_WeightHandoff ==
    \A i \in DOMAIN stack :
       LET f == stack[i]
       IN /\ i > 1 => f.weights = stack[i - 1].new_weights
          /\ \A k \in ExprKinds :
                /\ f.weights[k] * Pow(Factor(k).den, AncestorsOfKind(i, k))
                      = InitialWeight(k)
                          * Pow(Factor(k).num, AncestorsOfKind(i, k))
                /\ IF k = f.kind
                   THEN f.new_weights[k] * Factor(k).den
                           = f.weights[k] * Factor(k).num
                   ELSE f.new_weights[k] = f.weights[k]

\* The call for rhs is pending after an lhs that chose operators of its
\* own: it sees the weights lhs saw, BinaryExpr dampened once.
C6_Witness ==
    /\ cfg = CfgMixed
    /\ Len(stack) = 2
    /\ Top.path = <<2>>
    /\ stack[1].lhs.kind \in {"BinaryExpr", "UnaryExpr"}
    /\ ops >= 2
    /\ Top.weights = stack[1].new_weights
    /\ Top.weights[BinaryExprKind] * 2 = InitialWeight(BinaryExprKind)
    /\ Top.weights[UnaryExprKind] = InitialWeight(UnaryExprKind)

\* ---------------------------------------------------------- order of draws
IsPrefix(p, q) == Len(p) <= Len(q) /\ SubSeq(q, 1, Len(p)) = p
Below(p, q) == Len(p) < Len(q) /\ IsPrefix(p, q)

\* The draw `site` of a node comes before every draw of its subtrees.
OpDrawFirst(site) ==
    \A i \in DOMAIN draws :
       draws[i].site = site =>
          \A j \in DOMAIN draws : Below(draws[i].node, draws[j].node) => i < j
\* The draw `site` of a node comes after every draw of its subtrees.
OpDrawLast(site) ==
    \A i \in DOMAIN draws :
       draws[i].site = site =>
          \A j \in DOMAIN draws : Below(draws[i].node, draws[j].node) => j < i
\* Every draw of the lhs subtree comes before every draw of the rhs subtree.
LhsBeforeRhs ==
    \A b \in DOMAIN draws :
       draws[b].site = "gen_bin_op" =>
          \A i, j \in DOMAIN draws :
             (/\ IsPrefix(Append(draws[b].node, 1), draws[i].node)
              /\ IsPrefix(Append(draws[b].node, 2), draws[j].node)) => i < j
\* A node's gen_parenthesize draw comes after its other draws and after
\* every draw of its subtrees.
ParenthesizeLast ==
    \A i \in DOMAIN draws :
       draws[i].site = "gen_parenthesize" =>
          \A j \in DOMAIN draws :
             (i # j /\ IsPrefix(draws[i].node, draws[j].node)) => j < i

\* C9 as stated: the operator draw of every operator node, binary or unary,
\* comes before every draw of its children; lhs before rhs; the node's
\* parenthesize draw last.
C9_OperatorDrawnFirst ==
    /\ OpDrawFirst("gen_bin_op")
    /\ OpDrawFirst("gen_un_op")
    /\ LhsBeforeRhs
    /\ ParenthesizeLast

\* C9, amended: for a BinaryExpr the order is op draw, the draws of lhs,
\* the draws of rhs; for a UnaryExpr the draws of the operand come first
\* and the op draw after all of them; the node's parenthesize draw is last.
C9_DrawOrder ==
    /\ OpDrawFirst("gen_bin_op")
    /\ OpDrawLast("gen_un_op")
    /\ LhsBeforeRhs
    /\ ParenthesizeLast

\* The operator of a UnaryExpr is drawn after a BinaryExpr operand was
\* generated, its own operator first.
C9_Witness ==
    \E u, b, k \in DOMAIN draws :
       /\ draws[u].site = "gen_un_op"
       /\ draws[b].site = "gen_bin_op"
       /\ draws[k].site = "gen_expr_kind"
       /\ Below(draws[u].node, draws[b].node)
       /\ Below(draws[b].node, draws[k].node)
       /\ b < k
       /\ k < u

====
